---- MODULE Spec2Model ----
(***************************************************************************)
(* Model of the fitpantry data loader (load_data.py, models.py).           *)
(*                                                                         *)
(* main() runs create_engine, initialize_database, the embedding model     *)
(* load, load_and_clean_data and create_embeddings_and_load in sequence.   *)
(* Every external call (engine, sink, model, file) either succeeds or      *)
(* raises; the choice is nondeterministic.                                 *)
(*                                                                         *)
(* A DataFrame is a sequence of rows; each row keeps its index label idx.  *)
(* A cell that pandas holds as NaN/None is the empty tuple, a present      *)
(* value v is the one-element tuple <<v>>.                                 *)
(***************************************************************************)
EXTENDS Integers, Sequences, FiniteSets, TLC

\* ------------------------------------------------------------------------
\* Bounds of the model
\* ------------------------------------------------------------------------
MaxRows == 3
MaxBatch == 2
MaxSample == 3

\* ------------------------------------------------------------------------
\* Cells
\* ------------------------------------------------------------------------
NaN == <<>>

Some(v) == <<v>>

isna(c) == c = NaN

VARIABLES
    pc,              \* position of main()
    exitStatus,      \* NaN while running, Some(0) or Some(1) once the process is gone
    failure,         \* the call whose exception ended the run, "none" otherwise
    fileExists,      \* DATA_FILE_PATH exists
    csv,             \* the rows of the input file
    SAMPLE_SIZE,
    BATCH_SIZE,
    extension,       \* sink: pgvector extension enabled
    tableExists,     \* sink: recipe table created
    sink,            \* sink: committed Recipe rows, in insertion order
    modelLoaded,
    csvRead,         \* pd.read_csv returned a frame
    parsePasses,     \* nutrition parse passes run by load_and_clean_data
    fallbackInput,   \* the frame the except branch of the parse received
    fallbackKept,    \* the frame the except branch kept after dropna
    cleaned,         \* the frame after step 4 of load_and_clean_data, before sampling
    df,              \* the frame returned by load_and_clean_data
    i,               \* loop variable of create_embeddings_and_load
    texts_to_embed,
    embeddings,
    objects_to_add,
    encodeCalls,     \* batch offsets for which model.encode was called
    commitCalls      \* [i, size, ok] for every session.commit() call

vars == <<pc, exitStatus, failure, fileExists, csv, SAMPLE_SIZE, BATCH_SIZE,
          extension, tableExists, sink, modelLoaded, csvRead, parsePasses,
          fallbackInput, fallbackKept, cleaned, df, i, texts_to_embed,
          embeddings, objects_to_add, encodeCalls, commitCalls>>

\* ------------------------------------------------------------------------
\* ast.literal_eval on the cell texts that occur in the modelled files
\* ------------------------------------------------------------------------
Raises == [raises |-> TRUE, isList |-> FALSE, strs |-> FALSE, items |-> <<>>]

List(xs, allStr) == [raises |-> FALSE, isList |-> TRUE, strs |-> allStr, items |-> xs]

Scalar == [raises |-> FALSE, isList |-> FALSE, strs |-> FALSE, items |-> <<>>]

literal_eval(s) ==
    CASE s = "[100, 5, 2, 1, 3, 0, 10]"    -> List(<<Some(100), Some(5), Some(2), Some(1), Some(3), Some(0), Some(10)>>, FALSE)
      [] s = "[0, 5, 2, 1, 3, 0, 10]"      -> List(<<Some(0), Some(5), Some(2), Some(1), Some(3), Some(0), Some(10)>>, FALSE)
      [] s = "[-100, 5, 2, 1, 3, 0, 10]"   -> List(<<Some(-100), Some(5), Some(2), Some(1), Some(3), Some(0), Some(10)>>, FALSE)
      [] s = "[100, -5, 2, 1, 3, 0, -10]"  -> List(<<Some(100), Some(-5), Some(2), Some(1), Some(3), Some(0), Some(-10)>>, FALSE)
      [] s = "[100, 5, 2, 1, None, 0, 10]" -> List(<<Some(100), Some(5), Some(2), Some(1), NaN, Some(0), Some(10)>>, FALSE)
      [] s = "[100, 5]"                    -> List(<<Some(100), Some(5)>>, FALSE)
      [] s = "100"                         -> Scalar
      [] s = "['mix', 'bake']"             -> List(<<"mix", "bake">>, TRUE)
      [] s = "['x', 'y']"                  -> List(<<"x", "y">>, TRUE)
      [] s = "[1, 2]"                      -> List(<<1, 2>>, FALSE)
      [] OTHER                             -> Raises

\* ", ".join(items)
RECURSIVE join(_)
join(items) ==
    IF Len(items) = 0 THEN ""
    ELSE IF Len(items) = 1 THEN items[1]
    ELSE items[1] \o ", " \o join(Tail(items))

\* clean_text(text_list_str): the value returned, when it returns
clean_text(c) ==
    IF isna(c) THEN c
    ELSE LET r == literal_eval(c[1])
         IN  IF r.raises THEN c
             ELSE IF r.isList THEN Some(join(r.items)) ELSE c

\* clean_text lets the TypeError of str.join on a list of non-strings escape
clean_text_raises(c) ==
    /\ ~isna(c)
    /\ LET r == literal_eval(c[1])
       IN  ~r.raises /\ r.isList /\ ~r.strs

\* ------------------------------------------------------------------------
\* The input file
\* ------------------------------------------------------------------------
CsvRow(n, nut, st, ing) ==
    [name |-> n, minutes |-> Some(30), nutrition |-> nut, steps |-> st, ingredients |-> ing]

RawRows ==
    { CsvRow(Some("a"), Some("[100, 5, 2, 1, 3, 0, 10]"),    Some("['mix', 'bake']"), Some("['x', 'y']")),
      CsvRow(Some("b"), Some("[100, 5, 2, 1, 3, 0, 10]"),    Some("stir"),            Some("z")),
      CsvRow(Some("a"), Some("[0, 5, 2, 1, 3, 0, 10]"),      Some("stir"),            Some("z")),
      CsvRow(Some("b"), Some("[-100, 5, 2, 1, 3, 0, 10]"),   Some("stir"),            Some("z")),
      CsvRow(Some("c"), Some("[100, -5, 2, 1, 3, 0, -10]"),  Some("stir"),            Some("['x', 'y']")),
      CsvRow(Some("a"), Some("[100, 5, 2, 1, None, 0, 10]"), Some("stir"),            Some("z")),
      CsvRow(Some("a"), NaN,                                 Some("stir"),            Some("z")),
      CsvRow(Some("b"), Some("[100, 5"),                     Some("stir"),            Some("z")),
      CsvRow(Some("b"), Some("[100, 5]"),                    Some("stir"),            Some("z")),
      CsvRow(Some("b"), Some("100"),                         Some("stir"),            Some("z")),
      CsvRow(NaN,       Some("[100, 5, 2, 1, 3, 0, 10]"),    Some("stir"),            Some("z")),
      CsvRow(Some("a"), Some("[100, 5, 2, 1, 3, 0, 10]"),    Some("stir"),            NaN),
      CsvRow(Some("a"), Some("[100, 5, 2, 1, 3, 0, 10]"),    Some("[1, 2]"),          Some("z")) }

Files == UNION { [1..n -> RawRows] : n \in 0..MaxRows }

\* ------------------------------------------------------------------------
\* load_and_clean_data
\* ------------------------------------------------------------------------
\* pd.read_csv followed by df[columns_to_keep]; the index labels are 0, 1, ...
read_csv(rows) ==
    [k \in 1..Len(rows) |->
        [idx |-> k - 1, name |-> rows[k].name, nutrition |-> rows[k].nutrition,
         steps |-> rows[k].steps, ingredients |-> rows[k].ingredients]]

\* x[k] on a parsed value raises unless x is a list with more than k items
indexRaises(x, k) == ~x.isList \/ k >= Len(x.items)

\* the parse of one nutrition cell raises somewhere in lines 58-62
rowParseRaises(cell) ==
    \/ isna(cell)
    \/ LET x == literal_eval(cell[1])
       IN  x.raises \/ \E k \in {0, 1, 4, 6} : indexRaises(x, k)

parseRaises(frame) == \E k \in 1..Len(frame) : rowParseRaises(frame[k].nutrition)

\* variant: fat_g is read from the saturated-fat position of the list
nutritionColumnsSatFat(row) ==
    LET x == literal_eval(row.nutrition[1]).items
    IN  [idx |-> row.idx, name |-> row.name, nutrition |-> row.nutrition,
         steps |-> row.steps, ingredients |-> row.ingredients,
         calories |-> x[1], fat_g |-> x[6], protein_g |-> x[5], carbs_g |-> x[7]]

\* the four columns assigned on lines 59-62
nutritionColumns(row) ==
    LET x == literal_eval(row.nutrition[1]).items
    IN  [idx |-> row.idx, name |-> row.name, nutrition |-> row.nutrition,
         steps |-> row.steps, ingredients |-> row.ingredients,
         calories |-> x[1], fat_g |-> x[2], protein_g |-> x[5], carbs_g |-> x[7]]

parseNutrition(frame) == [k \in 1..Len(frame) |-> nutritionColumns(frame[k])]

\* df.dropna(subset=['nutrition']) of the except branch
dropnaNutrition(frame) == SelectSeq(frame, LAMBDA r : ~isna(r.nutrition))

\* step 3
cleanTextRaises(frame) ==
    \E k \in 1..Len(frame) :
        clean_text_raises(frame[k].steps) \/ clean_text_raises(frame[k].ingredients)

cleanTextColumns(frame) ==
    [k \in 1..Len(frame) |->
        [frame[k] EXCEPT !.steps = clean_text(@), !.ingredients = clean_text(@)]]

\* step 4
complete(r) ==
    /\ ~isna(r.name)
    /\ ~isna(r.calories)
    /\ ~isna(r.protein_g)
    /\ ~isna(r.fat_g)
    /\ ~isna(r.carbs_g)
    /\ ~isna(r.steps)
    /\ ~isna(r.ingredients)

dropnaRequired(frame) == SelectSeq(frame, complete)

\* variant: the calorie filter keeps rows with zero calories
positiveCaloriesOrZero(r) == r.calories[1] >= 0


positiveCalories(r) == r.calories[1] > 0

filterCalories(frame) == SelectSeq(frame, positiveCalories)

\* variant: the draw is made with replacement
sampleWithReplacement(frame, n) ==
    { [k \in 1..n |-> frame[p[k]]] : p \in [1..n -> 1..Len(frame)] }

\* step 5: df.sample(n=SAMPLE_SIZE, random_state=42) draws n rows without
\* replacement; which rows, and in which order, the seed decides
sample(frame, n) ==
    { [k \in 1..n |-> frame[p[k]]] :
        p \in { q \in [1..n -> 1..Len(frame)] :
                    \A a, b \in 1..n : a # b => q[a] # q[b] } }

Sampler(frame, n) == IF Len(frame) > n THEN sample(frame, n) ELSE {frame}

\* ------------------------------------------------------------------------
\* create_embeddings_and_load
\* ------------------------------------------------------------------------
EMBEDDING_DIM == 384

\* variant: the slice includes its end position
ilocInclusive(frame, a, b) ==
    SubSeq(frame, a + 1, IF b + 1 < Len(frame) THEN b + 1 ELSE Len(frame))

\* df.iloc[a : b]
iloc(frame, a, b) ==
    SubSeq(frame, a + 1, IF b < Len(frame) THEN b ELSE Len(frame))

batch_df == iloc(df, i, i + BATCH_SIZE)

\* batch_df['name'] + ". Ingredients: " + batch_df['ingredients']
embedText(row) == row.name[1] \o ". Ingredients: " \o row.ingredients[1]

textsOf(frame) == [k \in 1..Len(frame) |-> embedText(frame[k])]

\* model.encode: one vector per input text, in input order; a vector is
\* named by the text it encodes
encode(texts) == [k \in 1..Len(texts) |-> [dim |-> EMBEDDING_DIM, of |-> texts[k]]]

\* Recipe(...) for one (row, embedding) pair of the zip; id stays unset until commit
Recipe(row, embedding) ==
    [id |-> NaN, name |-> row.name[1], calories |-> row.calories[1],
     protein_g |-> row.protein_g[1], fat_g |-> row.fat_g[1],
     carbs_g |-> row.carbs_g[1], ingredients |-> row.ingredients[1],
     steps |-> row.steps[1], embedding |-> embedding]

\* variant: the embeddings are paired with the rows in reverse order
zipRecipesReversed(frame, embs) ==
    LET n == IF Len(frame) < Len(embs) THEN Len(frame) ELSE Len(embs)
    IN  [k \in 1..n |-> Recipe(frame[k], embs[n + 1 - k])]

\* the list built by the loop over zip(batch_df.to_dict('records'), embeddings)
zipRecipes(frame, embs) ==
    LET n == IF Len(frame) < Len(embs) THEN Len(frame) ELSE Len(embs)
    IN  [k \in 1..n |-> Recipe(frame[k], embs[k])]

\* the rows a successful commit inserts: the primary key is assigned by the sink
inserted(objects, table) ==
    [k \in 1..Len(objects) |-> [objects[k] EXCEPT !.id = Some(Len(table) + k)]]

\* ------------------------------------------------------------------------
\* main
\* ------------------------------------------------------------------------
Init ==
    /\ pc = "create_engine"
    /\ exitStatus = NaN
    /\ failure = "none"
    /\ fileExists \in BOOLEAN
    /\ csv \in Files
    /\ (~fileExists => csv = <<>>)
    /\ SAMPLE_SIZE \in 1..MaxSample
    /\ BATCH_SIZE \in 1..MaxBatch
    /\ extension = FALSE
    /\ tableExists = FALSE
    /\ sink = <<>>
    /\ modelLoaded = FALSE
    /\ csvRead = FALSE
    /\ parsePasses = 0
    /\ fallbackInput = <<>>
    /\ fallbackKept = <<>>
    /\ cleaned = <<>>
    /\ df = <<>>
    /\ i = 0
    /\ texts_to_embed = <<>>
    /\ embeddings = <<>>
    /\ objects_to_add = <<>>
    /\ encodeCalls = <<>>
    /\ commitCalls = <<>>

inputs == <<fileExists, csv, SAMPLE_SIZE, BATCH_SIZE>>

sinkVars == <<extension, tableExists, sink>>

cleanerVars == <<csvRead, parsePasses, fallbackInput, fallbackKept, cleaned, df>>

loaderVars == <<i, texts_to_embed, embeddings, objects_to_add, encodeCalls, commitCalls>>

\* sys.exit(1): SystemExit is not an Exception, main's handler lets it through
SysExit(what) ==
    /\ pc' = "exited"
    /\ exitStatus' = Some(1)
    /\ failure' = what

\* an exception reaches "except Exception" of main, which prints and returns
CaughtByMain(what) ==
    /\ pc' = "exited"
    /\ exitStatus' = Some(0)
    /\ failure' = what

\* create_engine(settings.DATABASE_URL)
CreateEngine ==
    /\ pc = "create_engine"
    /\ \/ pc' = "initialize_database" /\ UNCHANGED <<exitStatus, failure>>
       \/ CaughtByMain("create_engine")
    /\ UNCHANGED <<inputs, sinkVars, modelLoaded, cleanerVars, loaderVars>>

\* initialize_database(engine): the extension statement commits before
\* create_all runs; any exception ends in sys.exit(1)
InitializeDatabase ==
    /\ pc = "initialize_database"
    /\ \/ /\ extension' = TRUE
          /\ tableExists' = TRUE
          /\ pc' = "load_model"
          /\ UNCHANGED <<exitStatus, failure>>
       \/ /\ UNCHANGED <<extension, tableExists>>
          /\ SysExit("initialize_database")
       \/ /\ extension' = TRUE
          /\ UNCHANGED tableExists
          /\ SysExit("initialize_database")
    /\ UNCHANGED <<inputs, sink, modelLoaded, cleanerVars, loaderVars>>

\* variant: the model is loaded after the input file has been read
LoadModelAfterData ==
    /\ pc = "load_model"
    /\ \/ /\ modelLoaded' = TRUE
          /\ pc' = "load_and_clean_data"
          /\ UNCHANGED <<exitStatus, failure, csvRead>>
       \/ /\ UNCHANGED modelLoaded
          /\ csvRead' = fileExists
          /\ CaughtByMain("load_model")
    /\ UNCHANGED <<inputs, sinkVars, parsePasses, fallbackInput, fallbackKept,
                   cleaned, df, loaderVars>>

\* SentenceTransformer(EMBEDDING_MODEL)
LoadModel ==
    /\ pc = "load_model"
    /\ \/ /\ modelLoaded' = TRUE
          /\ pc' = "load_and_clean_data"
          /\ UNCHANGED <<exitStatus, failure>>
       \/ /\ UNCHANGED modelLoaded
          /\ CaughtByMain("load_model")
    /\ UNCHANGED <<inputs, sinkVars, cleanerVars, loaderVars>>

\* load_and_clean_data(): pd.read_csv raises FileNotFoundError
DataFileNotFound ==
    /\ pc = "load_and_clean_data"
    /\ ~fileExists
    /\ SysExit("file_not_found")
    /\ UNCHANGED <<inputs, sinkVars, modelLoaded, cleanerVars, loaderVars>>

\* load_and_clean_data() on an existing file, all five steps
LoadAndCleanData ==
    /\ pc = "load_and_clean_data"
    /\ fileExists
    /\ csvRead' = TRUE
    /\ LET frame0 == read_csv(csv)
           first  == parseRaises(frame0)
           kept   == IF first THEN dropnaNutrition(frame0) ELSE frame0
       IN  /\ parsePasses' = IF first THEN 2 ELSE 1
           /\ fallbackInput' = IF first THEN frame0 ELSE <<>>
           /\ fallbackKept' = IF first THEN kept ELSE <<>>
           /\ IF first /\ parseRaises(kept)
              THEN \* the second parse is outside any try
                   /\ CaughtByMain("parse_nutrition")
                   /\ UNCHANGED <<cleaned, df>>
              ELSE LET parsed == parseNutrition(kept)
                   IN  IF cleanTextRaises(parsed)
                       THEN /\ CaughtByMain("clean_text")
                            /\ UNCHANGED <<cleaned, df>>
                       ELSE LET out == filterCalories(dropnaRequired(cleanTextColumns(parsed)))
                            IN  /\ cleaned' = out
                                /\ df' \in Sampler(out, SAMPLE_SIZE)
                                /\ pc' = "loop"
                                /\ UNCHANGED <<exitStatus, failure>>
    /\ UNCHANGED <<inputs, sinkVars, modelLoaded, loaderVars>>

\* one pass of the batch loop up to the commit: slice, texts, encode, objects
EmbedBatch ==
    /\ pc = "loop"
    /\ i < Len(df)
    /\ encodeCalls' = Append(encodeCalls, i)
    /\ texts_to_embed' = textsOf(batch_df)
    /\ \/ /\ embeddings' = encode(texts_to_embed')
          /\ objects_to_add' = zipRecipes(batch_df, embeddings')
          /\ pc' = "commit"
          /\ UNCHANGED <<exitStatus, failure>>
       \/ /\ UNCHANGED <<embeddings, objects_to_add>>
          /\ CaughtByMain("encode")
    /\ UNCHANGED <<inputs, sinkVars, modelLoaded, cleanerVars, i, commitCalls>>

\* variant: a failed commit leaves the rows of its batch in the sink
CommitBatchNoRollback ==
    /\ pc = "commit"
    /\ \/ /\ sink' = sink \o inserted(objects_to_add, sink)
          /\ commitCalls' = Append(commitCalls, [i |-> i, size |-> Len(objects_to_add), ok |-> TRUE])
          /\ i' = i + BATCH_SIZE
          /\ pc' = "loop"
          /\ UNCHANGED <<exitStatus, failure>>
       \/ /\ commitCalls' = Append(commitCalls, [i |-> i, size |-> Len(objects_to_add), ok |-> FALSE])
          /\ sink' = sink \o inserted(objects_to_add, sink)
          /\ UNCHANGED i
          /\ CaughtByMain("commit")
    /\ UNCHANGED <<inputs, extension, tableExists, modelLoaded, cleanerVars,
                   texts_to_embed, embeddings, objects_to_add, encodeCalls>>

\* variant: a failed commit is swallowed and the loop goes on to the next batch
CommitBatchContinues ==
    /\ pc = "commit"
    /\ \/ /\ sink' = sink \o inserted(objects_to_add, sink)
          /\ commitCalls' = Append(commitCalls, [i |-> i, size |-> Len(objects_to_add), ok |-> TRUE])
       \/ /\ commitCalls' = Append(commitCalls, [i |-> i, size |-> Len(objects_to_add), ok |-> FALSE])
          /\ UNCHANGED sink
    /\ i' = i + BATCH_SIZE
    /\ pc' = "loop"
    /\ UNCHANGED <<exitStatus, failure>>
    /\ UNCHANGED <<inputs, extension, tableExists, modelLoaded, cleanerVars,
                   texts_to_embed, embeddings, objects_to_add, encodeCalls>>

\* session.add_all(objects_to_add); session.commit()
CommitBatch ==
    /\ pc = "commit"
    /\ \/ /\ sink' = sink \o inserted(objects_to_add, sink)
          /\ commitCalls' = Append(commitCalls, [i |-> i, size |-> Len(objects_to_add), ok |-> TRUE])
          /\ i' = i + BATCH_SIZE
          /\ pc' = "loop"
          /\ UNCHANGED <<exitStatus, failure>>
       \/ \* the session block rolls the pending batch back and closes
          /\ commitCalls' = Append(commitCalls, [i |-> i, size |-> Len(objects_to_add), ok |-> FALSE])
          /\ UNCHANGED <<sink, i>>
          /\ CaughtByMain("commit")
    /\ UNCHANGED <<inputs, extension, tableExists, modelLoaded, cleanerVars,
                   texts_to_embed, embeddings, objects_to_add, encodeCalls>>

\* range(0, len(df), BATCH_SIZE) is exhausted: main prints its summary and returns
LoadingComplete ==
    /\ pc = "loop"
    /\ i >= Len(df)
    /\ pc' = "exited"
    /\ exitStatus' = Some(0)
    /\ UNCHANGED <<failure, inputs, sinkVars, modelLoaded, cleanerVars, loaderVars>>

Next ==
    \/ CreateEngine
    \/ InitializeDatabase
    \/ LoadModel
    \/ DataFileNotFound
    \/ LoadAndCleanData
    \/ EmbedBatch
    \/ CommitBatch
    \/ LoadingComplete

Spec == Init /\ [][Next]_vars

\* ------------------------------------------------------------------------
\* Properties
\* ------------------------------------------------------------------------
\* load_and_clean_data has returned its frame to main
returned ==
    \/ pc \in {"loop", "commit"}
    \/ pc = "exited" /\ failure \in {"none", "encode", "commit"}

ceilDiv(n, b) == (n + b - 1) \div b

\* size of the k-th of the ceil(n/b) batches of n rows, k = 1, 2, ...
expectedSize(k, n, b) ==
    IF k < ceilDiv(n, b) THEN b ELSE n - b * (ceilDiv(n, b) - 1)

RECURSIVE SumSizes(_, _, _)
SumSizes(k, n, b) ==
    IF k <= 0 THEN 0 ELSE expectedSize(k, n, b) + SumSizes(k - 1, n, b)

\* C1: after a run that completes with every commit successful the sink holds
\* exactly as many records as the sampled set; after a run whose first failing
\* commit is that of batch K the sink holds exactly the records of the
\* batches before K.
C1_PersistedCount ==
    /\ (pc = "exited" /\ failure = "none") => Len(sink) = Len(df)
    /\ failure = "commit" =>
          Len(sink) = SumSizes(Len(commitCalls) - 1, Len(df), BATCH_SIZE)

C1_Witness ==
    /\ pc = "exited"
    /\ failure = "commit"
    /\ Len(commitCalls) = 2
    /\ Len(sink) = 2
    /\ Len(df) = 3

\* C2: commits are made one batch at a time in input order; once the commit of
\* batch K fails it is the last call made: the batches before K are in the
\* sink, batch K is not committed again, and no encode or commit is made for
\* a later batch.
C2_CommitFailureAborts ==
    /\ \A k \in 1..Len(commitCalls) : commitCalls[k].i = (k - 1) * BATCH_SIZE
    /\ \A k \in 1..Len(encodeCalls) : encodeCalls[k] = (k - 1) * BATCH_SIZE
    /\ \A k \in 1..(Len(commitCalls) - 1) : commitCalls[k].ok
    /\ Len(encodeCalls) \in {Len(commitCalls), Len(commitCalls) + 1}
    /\ (Len(commitCalls) > 0 /\ ~commitCalls[Len(commitCalls)].ok) =>
          /\ pc = "exited"
          /\ failure = "commit"
          /\ Len(encodeCalls) = Len(commitCalls)
          /\ Len(sink) = (Len(commitCalls) - 1) * BATCH_SIZE
          /\ \A j \in 1..Len(sink) : sink[j].name = df[j].name[1]

C2_Witness ==
    /\ failure = "commit"
    /\ Len(commitCalls) = 2
    /\ Len(sink) = 1
    /\ i + BATCH_SIZE < Len(df)

\* C3: a run that ends because the input file is missing, because
\* initialize_database failed or because the model load failed exits with a
\* non-zero status.
C3_NonZeroExit ==
    (pc = "exited" /\ failure \in {"file_not_found", "initialize_database", "load_model"})
        => exitStatus # NaN /\ exitStatus[1] # 0

\* C4: n rows are committed as ceil(n/B) contiguous batches in input order,
\* each of B rows but the last, which has n - B*(ceil(n/B)-1) rows; batch k
\* starts where batch k-1 ended, and each batch has one commit.
C4_BatchPartition ==
    LET n == Len(df)
        b == BATCH_SIZE
    IN  /\ \A k \in 1..Len(commitCalls) :
              /\ commitCalls[k].i = SumSizes(k - 1, n, b)
              /\ commitCalls[k].size = expectedSize(k, n, b)
              /\ k <= ceilDiv(n, b)
        /\ pc = "commit" =>
              Len(objects_to_add) = expectedSize(Len(commitCalls) + 1, n, b)
        /\ (pc = "exited" /\ failure = "none") =>
              /\ Len(commitCalls) = ceilDiv(n, b)
              /\ Len(sink) = n
              /\ \A j \in 1..n :
                    /\ sink[j].name = df[j].name[1]
                    /\ sink[j].steps = df[j].steps[1]
                    /\ sink[j].ingredients = df[j].ingredients[1]

C4_Witness ==
    /\ pc = "exited"
    /\ failure = "none"
    /\ Len(df) = 3
    /\ BATCH_SIZE = 2
    /\ Len(commitCalls) = 2
    /\ commitCalls[1].size = 2
    /\ commitCalls[2].size = 1

\* C5 as stated: when the model load fails nothing has been touched, neither
\* the input file nor the sink's schema nor any row or batch.
C5_NothingTouched ==
    failure = "load_model" =>
        /\ ~csvRead
        /\ ~extension
        /\ ~tableExists
        /\ sink = <<>>
        /\ encodeCalls = <<>>
        /\ commitCalls = <<>>

\* C5 amended: when the model load fails the input file has not been read, no
\* row has been written and no batch embedded or committed; the sink's
\* extension and table have already been created by initialize_database.
C5_NoDataTouched ==
    failure = "load_model" =>
        /\ ~csvRead
        /\ df = <<>>
        /\ sink = <<>>
        /\ encodeCalls = <<>>
        /\ commitCalls = <<>>
        /\ extension
        /\ tableExists

C5_Witness ==
    /\ pc = "exited"
    /\ failure = "load_model"
    /\ fileExists
    /\ Len(csv) > 0

\* C6: when the first nutrition parse raises, the fallback keeps exactly the
\* rows whose nutrition is present, parses once more, and load_and_clean_data
\* goes on to return its cleaned frame.
C6_FallbackContinues ==
    parsePasses = 2 =>
        /\ fallbackKept = SelectSeq(fallbackInput, LAMBDA r : r.nutrition # NaN)
        /\ failure # "parse_nutrition"

\* C7: every row returned by load_and_clean_data has name, calories,
\* protein_g, fat_g and carbs_g present and calories > 0, and no input row
\* that lacks one of these or has calories <= 0 is among the returned rows.
rawItems(row) == literal_eval(row.nutrition[1]).items

rawMissing(row) ==
    \/ row.name = NaN
    \/ row.nutrition = NaN
    \/ \E k \in {1, 2, 5, 7} : rawItems(row)[k] = NaN

rawNonPositive(row) ==
    /\ row.nutrition # NaN
    /\ rawItems(row)[1] # NaN
    /\ rawItems(row)[1][1] <= 0

C7_CleanerPostcondition ==
    returned =>
        /\ \A k \in 1..Len(cleaned) :
              /\ cleaned[k].name # NaN
              /\ cleaned[k].calories # NaN
              /\ cleaned[k].protein_g # NaN
              /\ cleaned[k].fat_g # NaN
              /\ cleaned[k].carbs_g # NaN
              /\ cleaned[k].calories[1] > 0
        /\ \A k \in 1..Len(df) : \E m \in 1..Len(cleaned) : df[k] = cleaned[m]
        /\ \A j \in 1..Len(csv) :
              (rawMissing(csv[j]) \/ rawNonPositive(csv[j])) =>
                  \A k \in 1..Len(cleaned) : cleaned[k].idx # j - 1

C7_Witness ==
    /\ returned
    /\ Len(csv) = 3
    /\ Cardinality({j \in 1..3 : rawNonPositive(csv[j]) /\ rawItems(csv[j])[1][1] = 0}) = 1
    /\ Len(cleaned) = 2

\* C8 as stated: every cleaned and every persisted record has non-negative
\* calories, protein_g, fat_g and carbs_g.
C8_NonNegative ==
    /\ \A k \in 1..Len(cleaned) :
          /\ cleaned[k].calories[1] >= 0
          /\ cleaned[k].protein_g[1] >= 0
          /\ cleaned[k].fat_g[1] >= 0
          /\ cleaned[k].carbs_g[1] >= 0
    /\ \A j \in 1..Len(sink) :
          /\ sink[j].calories >= 0
          /\ sink[j].protein_g >= 0
          /\ sink[j].fat_g >= 0
          /\ sink[j].carbs_g >= 0

\* C8 amended: every cleaned and every persisted record has calories > 0, and
\* its fat_g, protein_g and carbs_g are entries 1, 4 and 6 of the row's
\* nutrition list with their sign unchanged, so they are non-negative exactly
\* when those entries are.
C8_SignCarriedThrough ==
    /\ \A k \in 1..Len(cleaned) :
          /\ cleaned[k].calories[1] > 0
          /\ cleaned[k].calories = rawItems(cleaned[k])[1]
          /\ cleaned[k].fat_g = rawItems(cleaned[k])[2]
          /\ cleaned[k].protein_g = rawItems(cleaned[k])[5]
          /\ cleaned[k].carbs_g = rawItems(cleaned[k])[7]
    /\ \A j \in 1..Len(sink) :
          /\ sink[j].calories > 0
          /\ sink[j].calories = rawItems(df[j])[1][1]
          /\ sink[j].fat_g = rawItems(df[j])[2][1]
          /\ sink[j].protein_g = rawItems(df[j])[5][1]
          /\ sink[j].carbs_g = rawItems(df[j])[7][1]

C8_Witness ==
    \E j \in 1..Len(sink) : sink[j].fat_g < 0 /\ sink[j].carbs_g < 0

\* C9: in every batch the k-th record built and persisted carries the fields
\* of the k-th row and the k-th vector of that batch's single encode call,
\* whose k-th input is the row's name, ". Ingredients: " and its ingredients.
C9_RowEmbeddingPairing ==
    /\ pc = "commit" =>
          /\ Len(texts_to_embed) = Len(batch_df)
          /\ Len(embeddings) = Len(batch_df)
          /\ Len(objects_to_add) = Len(batch_df)
          /\ Len(encodeCalls) = Len(commitCalls) + 1
          /\ \A k \in 1..Len(batch_df) :
                /\ texts_to_embed[k] =
                      batch_df[k].name[1] \o ". Ingredients: " \o batch_df[k].ingredients[1]
                /\ embeddings[k].of = texts_to_embed[k]
                /\ objects_to_add[k].embedding = embeddings[k]
                /\ objects_to_add[k].name = batch_df[k].name[1]
                /\ objects_to_add[k].calories = batch_df[k].calories[1]
                /\ objects_to_add[k].protein_g = batch_df[k].protein_g[1]
                /\ objects_to_add[k].fat_g = batch_df[k].fat_g[1]
                /\ objects_to_add[k].carbs_g = batch_df[k].carbs_g[1]
                /\ objects_to_add[k].ingredients = batch_df[k].ingredients[1]
                /\ objects_to_add[k].steps = batch_df[k].steps[1]
    /\ \A j \in 1..Len(sink) :
          /\ sink[j].name = df[j].name[1]
          /\ sink[j].calories = df[j].calories[1]
          /\ sink[j].ingredients = df[j].ingredients[1]
          /\ sink[j].steps = df[j].steps[1]
          /\ sink[j].embedding.of =
                df[j].name[1] \o ". Ingredients: " \o df[j].ingredients[1]
    /\ \A a, b \in 1..Len(encodeCalls) : a # b => encodeCalls[a] # encodeCalls[b]

C9_Witness ==
    /\ BATCH_SIZE = 2
    /\ Len(commitCalls) = 1
    /\ commitCalls[1].ok
    /\ Len(sink) = 2
    /\ sink[1].embedding # sink[2].embedding
    /\ sink[1].embedding.of = "a. Ingredients: x, y"

\* C10: the sampler returns exactly SAMPLE_SIZE distinct rows of the cleaned
\* frame when that frame is larger than SAMPLE_SIZE and the cleaned frame
\* itself otherwise.
C10_Sampler ==
    returned =>
        IF Len(cleaned) > SAMPLE_SIZE
        THEN /\ Len(df) = SAMPLE_SIZE
             /\ \A k \in 1..Len(df) : \E m \in 1..Len(cleaned) : df[k] = cleaned[m]
             /\ \A a, b \in 1..Len(df) : a # b => df[a].idx # df[b].idx
        ELSE df = cleaned

C10_Witness ==
    /\ returned
    /\ Len(cleaned) = 3
    /\ SAMPLE_SIZE = 2
    /\ Len(df) = 2
    /\ df[1].idx > df[2].idx

====
